---- MODULE Spec2Model ----
(***************************************************************************)
(* Model of kimchi's VMTemplate (src/src/kimchi/vmtemplate.py).            *)
(*                                                                         *)
(* Python dicts are functions whose DOMAIN is the set of keys present, so  *)
(* "k in d" is  k \in DOMAIN d.  Strings that the code inspects (the cdrom *)
(* path or URL) are sequences of lexemes, so that startswith and urlparse  *)
(* are computed.  XML text is a sequence of element records.  A Python     *)
(* exception is a result whose field exc is the exception's name.          *)
(***************************************************************************)
EXTENDS Integers, Sequences, FiniteSets, TLC

VARIABLES
    pc,               \* "new", "built" (constructor returned), "failed" (it raised)
    args,             \* the dict passed to __init__, as the caller passed it
    scan,             \* the scan flag passed to __init__
    exc,              \* the exception __init__ raised, "" if none
    os_info,          \* the (distro, version) _get_os_info returned
    name,             \* self.name
    fc_host_support,  \* self.fc_host_support
    info,             \* self.info
    out               \* the last method call: its inputs and its result

vars == <<pc, args, scan, exc, os_info, name, fc_host_support, info, out>>

(***************************************************************************)
(* Bounds                                                                  *)
(***************************************************************************)
MaxDisks == 2        \* longest 'disks' list passed to the constructor

(***************************************************************************)
(* dict helpers                                                            *)
(***************************************************************************)
EmptyDict == <<>>

Get(d, k, dflt) == IF k \in DOMAIN d THEN d[k] ELSE dflt

\* d.update(e)
Update(d, e) ==
    [k \in DOMAIN d \cup DOMAIN e |-> IF k \in DOMAIN e THEN e[k] ELSE d[k]]

\* string.lowercase
Lowercase ==
    <<"a", "b", "c", "d", "e", "f", "g", "h", "i", "j", "k", "l", "m",
      "n", "o", "p", "q", "r", "s", "t", "u", "v", "w", "x", "y", "z">>

\* VMTemplate._bus_to_dev
_bus_to_dev == [ide |-> "hd", virtio |-> "vd", scsi |-> "sd"]

QEMU_NAMESPACE == "xmlns:qemu='http://libvirt.org/schemas/domain/qemu/1.0'"

(***************************************************************************)
(* Inputs: cdrom strings, as lexeme sequences                              *)
(***************************************************************************)
EmptyStr == <<>>                                         \* ''
LocalIso == <<"/", "f20.iso">>                            \* '/f20.iso'
BadIso   == <<"/", "bad.iso">>                            \* '/bad.iso', not an ISO
RelIso   == <<"f20.iso">>                                 \* 'f20.iso'
NfsIso   == <<"nfs", "://", "host", "/", "f20.iso">>      \* 'nfs://host/f20.iso'
HttpIso  == <<"http", "://", "host", ":", "8080", "/", "u14.iso">>

Cdroms == {EmptyStr, LocalIso, BadIso, RelIso, NfsIso, HttpIso}

\* iso.startswith(p)
StartsWith(s, p) == Len(s) > 0 /\ s[1] = p

(***************************************************************************)
(* Collaborators outside vmtemplate.py                                     *)
(***************************************************************************)
\* kimchi.isoinfo.IsoImage(iso).probe()
IsoProbe(iso) ==
    IF iso = LocalIso THEN [exc |-> "", val |-> <<"fedora", "20">>]
    ELSE IF iso = HttpIso THEN [exc |-> "", val |-> <<"ubuntu", "14.04">>]
    ELSE [exc |-> "IsoFormatError", val |-> <<"unknown", "unknown">>]

\* kimchi.imageinfo.probe_image(path)
probe_image(path) ==
    IF path = "/img/a" THEN <<"fedora", "20">>
    ELSE IF path = "/img/b" THEN <<"ubuntu", "14.04">>
    ELSE <<"unknown", "unknown">>

\* kimchi.imageinfo.probe_img_info(path)
probe_img_info(path) ==
    IF path = "/img/a" THEN [format |-> "qcow2", virtual_size |-> 5]
    ELSE IF path = "/img/b" THEN [format |-> "None", virtual_size |-> 7]
    ELSE [format |-> "raw", virtual_size |-> 3]

\* kimchi.osinfo.lookup(distro, version)
osinfo_lookup(distro, version) ==
    LET defaults ==
            [domain |-> "kvm", arch |-> "x86_64", cpus |-> 1, memory |-> 1024,
             networks |-> <<"default">>,
             storagepool |-> <<"storagepools", "default">>,
             disks |-> <<[index |-> 0, size |-> 10]>>,
             cdrom_bus |-> "ide", cdrom_index |-> 2,
             graphics |-> [type |-> "vnc", listen |-> "127.0.0.1"],
             os_distro |-> distro, os_version |-> version]
        old    == [disk_bus |-> "ide", nic_model |-> "e1000"]
        modern == [disk_bus |-> "virtio", nic_model |-> "virtio",
                   sound_model |-> "ich6"]
    IN  Update(defaults,
               IF <<distro, version>> \in {<<"fedora", "20">>, <<"ubuntu", "14.04">>}
               THEN modern ELSE old)

\* kimchi.utils.pool_name_from_uri(uri): the last component of the URI
pool_name_from_uri(uri) == uri[Len(uri)]

(***************************************************************************)
(* Inputs: constructor arguments                                           *)
(***************************************************************************)
DiskSpecs ==
    { [size |-> 10],
      [index |-> 2, size |-> 10, volume |-> "lun0"],
      [base |-> "/img/a"],
      [base |-> "/img/b", size |-> 20] }

RECURSIVE SeqsUpTo(_, _)
SeqsUpTo(S, n) ==
    IF n = 0 THEN {<<>>}
    ELSE LET shorter == SeqsUpTo(S, n - 1)
         IN  shorter \cup {Append(q, e) : q \in {r \in shorter : Len(r) = n - 1}, e \in S}

DiskLists == SeqsUpTo(DiskSpecs, MaxDisks)

\* the installation media: 'cdrom' and 'disks', each present or not
MediaArgs ==
    LET cd == {EmptyDict} \cup {[cdrom |-> c] : c \in Cdroms}
        ds == {EmptyDict} \cup {[disks |-> l] : l \in DiskLists}
    IN  {Update(c, d) : c \in cd, d \in ds}

\* the other keys a caller may pass, over and above the media
ExtraArgs ==
    { [name |-> "mytemplate"],
      [name |-> "", fc_host_support |-> TRUE],
      [os_distro |-> "ubuntu", os_version |-> "14.04", arch |-> "ppc64"],
      [os_distro |-> "sles", os_version |-> "11", arch |-> "ppc64"],
      [graphics |-> [type |-> "spice"]],
      [graphics |-> [listen |-> "0.0.0.0"]],
      [graphics |-> EmptyDict],
      [networks |-> <<"default", "ghost-net">>],
      [networks |-> <<>>, storagepool |-> <<"storagepools", "lvm">>],
      [disk_bus |-> "scsi", cdrom_bus |-> "scsi"],
      [tablet_bus |-> "usb"],
      [kbd_bus |-> "ps2"],
      [kbd_bus |-> "ps2", tablet_bus |-> "usb"],
      [mouse_bus |-> "ps2", tablet_bus |-> "usb", sound_model |-> "ac97"],
      [mouse_bus |-> "ps2", kbd_bus |-> "ps2", tablet_bus |-> "usb"] }

\* the media the extra keys are combined with
ExtraMedia ==
    { [cdrom |-> LocalIso],
      [cdrom |-> HttpIso],
      [disks |-> <<[base |-> "/img/a"]>>] }

ArgsSpace ==
    MediaArgs \cup {Update(m, e) : m \in ExtraMedia, e \in ExtraArgs}

Uuids == {"uuid4"}            \* values of str(uuid.uuid4())
Clock == {"1400000000000"}    \* values of str(int(time.time() * 1000))

(***************************************************************************)
(* Construction                                                            *)
(***************************************************************************)
\* VMTemplate.get_iso_info
get_iso_info(iso) ==
    LET iso_prefixes == {"/", "http", "https", "ftp", "ftps", "tftp"}
    IN  IF {p \in iso_prefixes : StartsWith(iso, p)} = {}
        THEN [exc |-> "InvalidParameter:KCHTMPL0006E", val |-> <<"unknown", "unknown">>]
        ELSE IF IsoProbe(iso).exc = "IsoFormatError"
        THEN [exc |-> "InvalidParameter:KCHISO0001E", val |-> <<"unknown", "unknown">>]
        ELSE IsoProbe(iso)

\* BaseImgs looking at the first disk only
BaseImgs_FirstDiskOnly(disks) ==
    {i \in 1..Len(disks) : i = 1 /\ "base" \in DOMAIN disks[i]}

\* the disks that carry a 'base' key, by position
BaseImgs(disks) == {i \in 1..Len(disks) : "base" \in DOMAIN disks[i]}

\* LastOf stopping at the first base image
LastOf_First(S) == CHOOSE i \in S : \A j \in S : i <= j

\* the loop keeps the probe of the last disk it visits
LastOf(S) == CHOOSE i \in S : \A j \in S : j <= i

\* VMTemplate._get_os_info: the exception raised (if any), the (distro,
\* version) returned, whether info['iso_stream'] was set, and the 'disks'
\* list as the loop leaves it
_get_os_info(a, s) ==
    LET iso   == Get(a, "cdrom", EmptyStr)
        disks == Get(a, "disks", <<>>)
        bases == BaseImgs(disks)
        filled ==
            [i \in 1..Len(disks) |->
                IF "base" \in DOMAIN disks[i] /\ "size" \notin DOMAIN disks[i]
                THEN Update(disks[i],
                            [size |-> probe_img_info(disks[i]["base"]).virtual_size])
                ELSE disks[i]]
    IN  IF Len(iso) > 0
        THEN LET got == IF s THEN get_iso_info(iso)
                        ELSE [exc |-> "", val |-> <<"unknown", "unknown">>]
             IN  [exc |-> got.exc, val |-> got.val,
                  iso_stream |-> ~StartsWith(iso, "/"), disks |-> disks]
        ELSE IF bases = {}
        THEN [exc |-> "MissingParameter:KCHTMPL0016E",
              val |-> <<"unknown", "unknown">>, iso_stream |-> FALSE, disks |-> filled]
        ELSE [exc |-> "",
              val |-> IF s THEN probe_image(disks[LastOf(bases)]["base"])
                      ELSE <<"unknown", "unknown">>,
              iso_stream |-> FALSE, disks |-> filled]

\* VMTemplate._gen_name
_gen_name(distro, version, uuid, now) ==
    IF distro = "unknown" THEN uuid ELSE distro \o version \o "." \o now

\* VMTemplate.__init__: the object's fields, or the exception raised
VMTemplate(a, s, uuid, now) ==
    LET os      == _get_os_info(a, s)
        info0   == IF os.iso_stream THEN [iso_stream |-> TRUE] ELSE EmptyDict
        distro  == os.val[1]
        version == os.val[2]
        entry   == osinfo_lookup(Get(a, "os_distro", distro),
                                 Get(a, "os_version", version))
        info1   == Update(info0, entry)
        a1      == IF "disks" \in DOMAIN a THEN Update(a, [disks |-> os.disks]) ELSE a
        a2      == IF "name" \notin DOMAIN a1 \/ a1["name"] = ""
                   THEN Update(a1, [name |-> _gen_name(distro, version, uuid, now)])
                   ELSE a1
        a3      == IF "graphics" \in DOMAIN a2 /\ a2["graphics"] # EmptyDict
                   THEN Update(a2, [graphics |->
                                       Update(info1["graphics"], a2["graphics"])])
                   ELSE a2
    IN  IF os.exc # ""
        THEN [exc |-> os.exc, os_info |-> os.val, name |-> "",
              fc_host_support |-> FALSE, info |-> EmptyDict]
        ELSE [exc |-> "", os_info |-> os.val, name |-> a3["name"],
              fc_host_support |-> Get(a, "fc_host_support", FALSE),
              info |-> Update(info1, a3)]

(***************************************************************************)
(* Collaborators the device builders call                                  *)
(***************************************************************************)
\* return values of the subclass hook _get_storage_type
StorageTypes == {"dir", "logical", "scsi", "iscsi"}

\* return values of the subclass hook _get_storage_path
StoragePaths == {"/var/lib/libvirt/images"}

\* the subclass hook _get_volume_path(pool_name, volume)
_get_volume_path(pool, vol) == "/dev/" \o pool \o "/" \o vol

\* pool.storageVolLookupByName(lun).path(), pool from the hook _storage_validate
StorageVolPath(lun) == "/dev/disk/by-id/" \o lun

\* socket.getservbyname(protocol): the registered port, <<>> if none (socket.error)
getservbyname(protocol) ==
    IF protocol = "nfs" THEN <<2049>>
    ELSE IF protocol = "http" THEN <<80>>
    ELSE <<>>

\* socket.gethostbyname(hostname)
gethostbyname(hostname) == IF hostname = "host" THEN "192.0.2.7" ELSE hostname

\* int(s) for the port strings of the cdrom URLs
ParseInt(s) == IF s = "8080" THEN 8080 ELSE 0

\* os.path.join(a, b)
PathJoin(a, b) == IF a = "" THEN b ELSE a \o "/" \o b

\* the index of the first element of s equal to e, 0 if there is none
IndexOf(s, e) ==
    IF \E i \in 1..Len(s) : s[i] = e
    THEN CHOOSE i \in 1..Len(s) : s[i] = e /\ \A j \in 1..(i - 1) : s[j] # e
    ELSE 0

\* urlparse.urlparse(url): scheme, hostname, port (<<>> is None) and path
urlparse(url) ==
    LET hasScheme == Len(url) >= 2 /\ url[2] = "://"
        rest      == IF hasScheme THEN SubSeq(url, 3, Len(url)) ELSE url
        slash     == IndexOf(rest, "/")
        netloc    == IF ~hasScheme THEN <<>>
                     ELSE IF slash = 0 THEN rest
                     ELSE SubSeq(rest, 1, slash - 1)
        path      == IF ~hasScheme THEN rest
                     ELSE IF slash = 0 THEN <<>>
                     ELSE SubSeq(rest, slash, Len(rest))
    IN  [scheme   |-> IF hasScheme THEN url[1] ELSE "",
         hostname |-> IF Len(netloc) >= 1 THEN netloc[1] ELSE "None",
         port     |-> IF Len(netloc) >= 3 /\ netloc[2] = ":"
                      THEN <<ParseInt(netloc[3])>> ELSE <<>>,
         path     |-> path]

(***************************************************************************)
(* Device builders.  Each returns [exc, xml]: the exception raised ("" if  *)
(* none) and the fragment, a sequence of elements.                         *)
(***************************************************************************)
Ok(xml) == [exc |-> "", xml |-> xml]
Raise(e) == [exc |-> e, xml |-> <<>>]

\* the first exception of a sequence of results, "" if none
RECURSIVE FirstExc(_)
FirstExc(rs) ==
    IF rs = <<>> THEN ""
    ELSE IF Head(rs).exc # "" THEN Head(rs).exc
    ELSE FirstExc(Tail(rs))

\* "%s%s" % (prefix, string.lowercase[index])
DevName(prefix, index) == prefix \o Lowercase[index + 1]

\* VMTemplate._get_cdrom_xml
_get_cdrom_xml(inf, libvirt_stream_protocols, qemu_stream_dns) ==
    IF "cdrom" \notin DOMAIN inf THEN Ok(<<>>)
    ELSE
    LET bus      == inf["cdrom_bus"]
        dev      == DevName(_bus_to_dev[bus], inf["cdrom_index"])
        output   == urlparse(inf["cdrom"])
        protocol == output.scheme
        url_path == output.path
        port     == IF output.port = <<>> THEN getservbyname(protocol) ELSE output.port
        hostname == IF qemu_stream_dns THEN output.hostname
                    ELSE gethostbyname(output.hostname)
        url      == IF qemu_stream_dns THEN inf["cdrom"]
                    ELSE <<protocol, "://", hostname, ":", ToString(port[1])>> \o url_path
    IN  IF ~Get(inf, "iso_stream", FALSE)
        THEN Ok(<<[tag |-> "disk", type |-> "file", device |-> "cdrom",
                   driver_type |-> "raw", src |-> inf["cdrom"],
                   dev |-> dev, bus |-> bus]>>)
        ELSE IF port = <<>> THEN Raise("socket.error")
        ELSE IF ~qemu_stream_dns /\ output.hostname = "None" THEN Raise("TypeError")
        ELSE IF protocol \notin libvirt_stream_protocols
        THEN Ok(<<[tag |-> "qemu:commandline", url |-> url, bus |-> bus]>>)
        ELSE Ok(<<[tag |-> "disk", type |-> "network", device |-> "cdrom",
                   driver_type |-> "raw", protocol |-> protocol,
                   url_path |-> url_path, hostname |-> hostname,
                   port |-> port[1], dev |-> dev, bus |-> bus]>>)

\* disk.get('index', i), i counted from 0
DiskIndex(disks, i) == Get(disks[i], "index", i - 1)

\* VolumeFormat with the 'logical' case lost
VolumeFormat_AlwaysQcow2(storage_type) == "qcow2"

\* 'raw' if self._get_storage_type() in ['logical'] else 'qcow2'
VolumeFormat(storage_type) == IF storage_type \in {"logical"} THEN "raw" ELSE "qcow2"

\* "%s-%s.img" % (vm_uuid, index)
VolumeName(vm_uuid, index) == vm_uuid \o "-" \o ToString(index) \o ".img"

\* VMTemplate._get_disks_xml
_get_disks_xml(inf, vm_uuid, storage_path, storage_type) ==
    LET disks == inf["disks"]
        one(i) ==
            LET index == DiskIndex(disks, i)
            IN  IF index + 1 > Len(Lowercase) THEN Raise("IndexError")
                ELSE Ok([tag |-> "disk", type |-> "file", device |-> "disk",
                         driver_type |-> VolumeFormat(storage_type),
                         src |-> PathJoin(storage_path, VolumeName(vm_uuid, index)),
                         dev |-> DevName(_bus_to_dev[inf["disk_bus"]], index),
                         bus |-> inf["disk_bus"]])
        each == [i \in 1..Len(disks) |-> one(i)]
    IN  IF FirstExc(each) # "" THEN Raise(FirstExc(each))
        ELSE Ok([i \in 1..Len(disks) |-> each[i].xml])

\* _get_graphics_xml with the per-call override dropped
_get_graphics_xml_NoOverride(inf, params) ==
    LET graphics == inf["graphics"]
        graphics_xml == <<[tag |-> "graphics", type |-> graphics["type"],
                           listen |-> graphics["listen"]]>>
        spicevmc_xml == <<[tag |-> "channel", type |-> "spicevmc"]>>
    IN  IF "type" \notin DOMAIN graphics THEN Raise("KeyError:type")
        ELSE IF "listen" \notin DOMAIN graphics THEN Raise("KeyError:listen")
        ELSE IF graphics["type"] = "spice" THEN Ok(graphics_xml \o spicevmc_xml)
        ELSE Ok(graphics_xml)

\* VMTemplate._get_graphics_xml; params = EmptyDict stands for None too
_get_graphics_xml(inf, params) ==
    LET graphics == IF params # EmptyDict THEN Update(inf["graphics"], params)
                    ELSE inf["graphics"]
        graphics_xml == <<[tag |-> "graphics", type |-> graphics["type"],
                           listen |-> graphics["listen"]]>>
        spicevmc_xml == <<[tag |-> "channel", type |-> "spicevmc"]>>
    IN  IF "type" \notin DOMAIN graphics THEN Raise("KeyError:type")
        ELSE IF "listen" \notin DOMAIN graphics THEN Raise("KeyError:listen")
        ELSE IF graphics["type"] = "spice" THEN Ok(graphics_xml \o spicevmc_xml)
        ELSE Ok(graphics_xml)

\* the luns of _get_scsi_disks_xml: the 'volume' of each disk that has one
RECURSIVE Luns(_)
Luns(disks) ==
    IF disks = <<>> THEN <<>>
    ELSE IF "volume" \in DOMAIN Head(disks)
    THEN <<Head(disks)["volume"]>> \o Luns(Tail(disks))
    ELSE Luns(Tail(disks))

\* VMTemplate._get_scsi_disks_xml
_get_scsi_disks_xml(inf, fc) ==
    LET luns == Luns(Get(inf, "disks", <<>>))
    IN  Ok([i \in 1..Len(luns) |->
              [tag |-> "disk", type |-> IF fc THEN "volume" ELSE "block",
               device |-> "lun", driver_type |-> "raw",
               src |-> StorageVolPath(luns[i]),
               dev |-> DevName("sd", i - 1), bus |-> "scsi"]])

\* VMTemplate._get_iscsi_disks_xml
_get_iscsi_disks_xml(inf) ==
    LET disk_bus   == inf["disk_bus"]
        dev_prefix == _bus_to_dev[disk_bus]
        pool_name  == pool_name_from_uri(inf["storagepool"])
        disks      == inf["disks"]
    IN  Ok([i \in 1..Len(disks) |->
              [tag |-> "disk", type |-> "block", device |-> "disk",
               driver_type |-> "raw",
               src |-> _get_volume_path(pool_name, Get(disks[i], "volume", "None")),
               dev |-> DevName(dev_prefix, i - 1), bus |-> disk_bus]])

\* LooseVersion(v) >= LooseVersion(w), for the version strings of the model;
\* a non-numeric component compares greater than a number (Python 2)
LooseVersionGE(v, w) ==
    LET parts(x) == IF x = "14.04" THEN <<14, 4>>
                    ELSE IF x = "12" THEN <<12>>
                    ELSE IF x = "11" THEN <<11>>
                    ELSE <<20>>
    IN  \/ v = "unknown"
        \/ parts(v)[1] > parts(w)[1]
        \/ /\ parts(v)[1] = parts(w)[1]
           /\ \/ Len(parts(w)) = 1
              \/ Len(parts(v)) > 1 /\ parts(v)[2] >= parts(w)[2]

\* VMTemplate._disable_vhost: whether the <driver name='qemu'/> hint is emitted
_disable_vhost(inf) ==
    /\ inf["arch"] = "ppc64"
    /\ \/ inf["os_distro"] = "ubuntu" /\ LooseVersionGE(inf["os_version"], "14.04")
       \/ inf["os_distro"] = "sles" /\ LooseVersionGE(inf["os_version"], "12")

\* VMTemplate._get_networks_xml
_get_networks_xml(inf) ==
    [i \in 1..Len(inf["networks"]) |->
        [tag |-> "interface", type |-> "network", network |-> inf["networks"][i],
         model |-> inf["nic_model"], driver |-> _disable_vhost(inf)]]

\* VMTemplate._get_input_output_xml
_get_input_output_xml(inf) ==
    LET mouse    == <<[tag |-> "input", type |-> "mouse", bus |-> inf["mouse_bus"]]>>
        keyboard == <<[tag |-> "input", type |-> "kbd", bus |-> inf["kbd_bus"]]>>
        tablet   == <<[tag |-> "input", type |-> "tablet", bus |-> inf["kbd_bus"]]>>
        sound    == <<[tag |-> "sound", model |-> inf["sound_model"]]>>
    IN  IF "tablet_bus" \in DOMAIN inf /\ "kbd_bus" \notin DOMAIN inf
        THEN Raise("KeyError:kbd_bus")
        ELSE Ok((IF "mouse_bus" \in DOMAIN inf THEN mouse ELSE <<>>)
                \o (IF "kbd_bus" \in DOMAIN inf THEN keyboard ELSE <<>>)
                \o (IF "tablet_bus" \in DOMAIN inf THEN tablet ELSE <<>>)
                \o (IF "sound_model" \in DOMAIN inf THEN sound ELSE <<>>))

(***************************************************************************)
(* Compilation                                                             *)
(***************************************************************************)
\* UsesQemuCmdline with the iso_stream test lost
UsesQemuCmdline_NoStreamTest(inf, libvirt_stream_protocols) ==
    urlparse(Get(inf, "cdrom", EmptyStr)).scheme \notin libvirt_stream_protocols

\* VMTemplate.to_vm_xml: whether the cdrom goes to the qemu command line
UsesQemuCmdline(inf, libvirt_stream_protocols) ==
    /\ urlparse(Get(inf, "cdrom", EmptyStr)).scheme \notin libvirt_stream_protocols
    /\ Get(inf, "iso_stream", FALSE)

\* VMTemplate.to_vm_xml: the exception raised, or the descriptor; graphics,
\* qemu_stream_dns and libvirt_stream_protocols are the keyword arguments
to_vm_xml(inf, fc, vm_name, vm_uuid, graphics, qemu_stream_dns, libvirt_stream_protocols, storage_type, storage_path) ==
    LET networks     == _get_networks_xml(inf)
        input_output == _get_input_output_xml(inf)
        graphics_xml == _get_graphics_xml(inf, graphics)
        disks        == IF storage_type = "iscsi" THEN _get_iscsi_disks_xml(inf)
                        ELSE IF storage_type = "scsi" THEN _get_scsi_disks_xml(inf, fc)
                        ELSE _get_disks_xml(inf, vm_uuid, storage_path, storage_type)
        cdrom_xml    == _get_cdrom_xml(inf, libvirt_stream_protocols, qemu_stream_dns)
        fallback     == UsesQemuCmdline(inf, libvirt_stream_protocols)
        failed       == FirstExc(<<input_output, graphics_xml, disks, cdrom_xml>>)
    IN  IF failed # "" THEN [exc |-> failed, xml |-> EmptyDict]
        ELSE [exc |-> "",
              xml |-> [domain              |-> inf["domain"],
                       qemu_namespace      |-> IF fallback THEN QEMU_NAMESPACE ELSE "",
                       qemu_stream_cmdline |-> IF fallback THEN cdrom_xml.xml ELSE <<>>,
                       name                |-> vm_name,
                       uuid                |-> vm_uuid,
                       memory              |-> inf["memory"],
                       cpus                |-> inf["cpus"],
                       arch                |-> inf["arch"],
                       boot                |-> <<"hd", "cdrom">>,
                       disks               |-> disks.xml,
                       cdroms              |-> IF fallback THEN <<>> ELSE cdrom_xml.xml,
                       networks            |-> networks,
                       graphics            |-> graphics_xml.xml,
                       input_output        |-> input_output.xml]]

\* VMTemplate.to_volume_list: one volume of the list
VolumeInfo(d, index, vm_uuid, storage_path, fmt) ==
    LET volume == VolumeName(vm_uuid, index)
        path   == storage_path \o "/" \o volume
        alloc  == IF fmt = "qcow2" THEN 0 ELSE d["size"]
        base   == [path |-> d["base"], format |-> probe_img_info(d["base"]).format]
        plain  == [name |-> volume, capacity |-> d["size"], format |-> fmt,
                   path |-> path, allocation |-> alloc]
        v_tree == [tag |-> "volume", name |-> volume, allocation |-> alloc,
                   capacity |-> d["size"], unit |-> "G",
                   target |-> [format |-> fmt, path |-> path]]
    IN  IF "size" \notin DOMAIN d THEN [exc |-> "KeyError:size", val |-> EmptyDict]
        ELSE IF "base" \notin DOMAIN d
        THEN [exc |-> "", val |-> Update(plain, [xml |-> v_tree])]
        ELSE IF base.format = "None"
        THEN [exc |-> "InvalidParameter:KCHTMPL0024E", val |-> EmptyDict]
        ELSE [exc |-> "",
              val |-> Update(plain,
                             [base |-> base,
                              xml |-> Update(v_tree, [backingStore |-> base])])]

\* VMTemplate.to_volume_list: the exception raised, or the list
to_volume_list(inf, vm_uuid, storage_path, storage_type) ==
    LET fmt   == VolumeFormat(storage_type)
        disks == inf["disks"]
        each  == [i \in 1..Len(disks) |->
                     VolumeInfo(disks[i], DiskIndex(disks, i), vm_uuid,
                                storage_path, fmt)]
    IN  IF FirstExc(each) # "" THEN [exc |-> FirstExc(each), ret |-> <<>>]
        ELSE [exc |-> "", ret |-> [i \in 1..Len(disks) |-> each[i].val]]

\* the elements of a list
Range(s) == {s[i] : i \in 1..Len(s)}

\* validate_integrity recording the 'networks' category even when it is empty
validate_integrity_AlwaysNetworks(inf, all_networks, all_pools, isfile, url_ok) ==
    LET invalid_networks == Range(inf["networks"]) \ all_networks
        pool_name        == pool_name_from_uri(inf["storagepool"])
        iso              == Get(inf, "cdrom", EmptyStr)
        i1 == [networks |-> invalid_networks]
        i2 == IF pool_name \notin all_pools
              THEN Update(i1, [storagepools |-> <<pool_name>>]) ELSE i1
        i3 == IF iso # EmptyStr /\ ~(isfile \/ url_ok)
              THEN Update(i2, [cdrom |-> <<iso>>]) ELSE i2
    IN  i3

\* VMTemplate.validate_integrity: the 'invalid' record; all_networks and
\* all_pools are what the hooks _get_all_networks_name and
\* _get_all_storagepools_name return, isfile and url_ok what os.path.isfile
\* and check_url_path return for the cdrom
validate_integrity(inf, all_networks, all_pools, isfile, url_ok) ==
    LET invalid_networks == Range(inf["networks"]) \ all_networks
        pool_name        == pool_name_from_uri(inf["storagepool"])
        iso              == Get(inf, "cdrom", EmptyStr)
        i1 == IF invalid_networks # {} THEN [networks |-> invalid_networks]
              ELSE EmptyDict
        i2 == IF pool_name \notin all_pools
              THEN Update(i1, [storagepools |-> <<pool_name>>]) ELSE i1
        i3 == IF iso # EmptyStr /\ ~(isfile \/ url_ok)
              THEN Update(i2, [cdrom |-> <<iso>>]) ELSE i2
    IN  i3

(***************************************************************************)
(* Inputs of the method calls                                              *)
(***************************************************************************)
VmNames == {"vm1"}
VmUuids == {"5a2c"}
GraphicsOverrides == {EmptyDict, [type |-> "spice"], [type |-> "vnc"]}
StreamProtocols == {{}, {"nfs", "http"}}

\* the keyword arguments and hook results of the to_vm_xml calls: every
\* graphics override on a file pool, and every storage type with every
\* protocol set and, on a file pool, either setting of qemu_stream_dns
VmXmlCalls ==
    {[graphics |-> g, qemu_stream_dns |-> FALSE, libvirt_stream_protocols |-> {},
      storage_type |-> "dir"] : g \in GraphicsOverrides}
    \cup
    {[graphics |-> EmptyDict, qemu_stream_dns |-> FALSE,
      libvirt_stream_protocols |-> p, storage_type |-> st] :
        p \in StreamProtocols, st \in StorageTypes}
    \cup
    {[graphics |-> EmptyDict, qemu_stream_dns |-> TRUE,
      libvirt_stream_protocols |-> p, storage_type |-> "dir"] :
        p \in StreamProtocols}

\* the live inventory and the reachability of the cdrom at a
\* validate_integrity call
Inventories ==
    { [all_networks |-> {"default", "ghost-net"}, all_pools |-> {"default", "lvm"},
       isfile |-> TRUE, url_ok |-> FALSE],
      [all_networks |-> {"default"}, all_pools |-> {"lvm"},
       isfile |-> FALSE, url_ok |-> TRUE],
      [all_networks |-> {"ghost-net"}, all_pools |-> {"default"},
       isfile |-> FALSE, url_ok |-> FALSE],
      [all_networks |-> {}, all_pools |-> {},
       isfile |-> FALSE, url_ok |-> FALSE] }

NoCall == [op |-> "none"]

Construct ==
    /\ pc = "new"
    /\ \E a \in ArgsSpace, s \in BOOLEAN, uuid \in Uuids, now \in Clock :
         LET t == VMTemplate(a, s, uuid, now)
         IN  /\ args' = a
             /\ scan' = s
             /\ exc' = t.exc
             /\ os_info' = t.os_info
             /\ name' = t.name
             /\ fc_host_support' = t.fc_host_support
             /\ info' = t.info
             /\ pc' = IF t.exc = "" THEN "built" ELSE "failed"
    /\ out' = NoCall

Init ==
    /\ pc = "new"
    /\ args = EmptyDict
    /\ scan = FALSE
    /\ exc = ""
    /\ os_info = <<"unknown", "unknown">>
    /\ name = ""
    /\ fc_host_support = FALSE
    /\ info = EmptyDict
    /\ out = NoCall

ToVmXml ==
    /\ pc = "built"
    /\ \E vm_name \in VmNames, vm_uuid \in VmUuids, c \in VmXmlCalls,
          sp \in StoragePaths :
         LET r == to_vm_xml(info, fc_host_support, vm_name, vm_uuid, c.graphics,
                            c.qemu_stream_dns, c.libvirt_stream_protocols,
                            c.storage_type, sp)
         IN  out' = [op |-> "to_vm_xml", vm_name |-> vm_name, vm_uuid |-> vm_uuid,
                     graphics |-> c.graphics,
                     qemu_stream_dns |-> c.qemu_stream_dns,
                     libvirt_stream_protocols |-> c.libvirt_stream_protocols,
                     storage_type |-> c.storage_type, storage_path |-> sp,
                     exc |-> r.exc, xml |-> r.xml]
    /\ UNCHANGED <<pc, args, scan, exc, os_info, name, fc_host_support, info>>

ToVolumeList ==
    /\ pc = "built"
    /\ \E vm_uuid \in VmUuids, st \in StorageTypes, sp \in StoragePaths :
         LET r == to_volume_list(info, vm_uuid, sp, st)
         IN  out' = [op |-> "to_volume_list", vm_uuid |-> vm_uuid,
                     storage_type |-> st, storage_path |-> sp,
                     exc |-> r.exc, ret |-> r.ret]
    /\ UNCHANGED <<pc, args, scan, exc, os_info, name, fc_host_support, info>>

ValidateIntegrity ==
    /\ pc = "built"
    /\ \E w \in Inventories :
         /\ info' = Update(info, [invalid |->
                              validate_integrity(info, w.all_networks, w.all_pools,
                                                 w.isfile, w.url_ok)])
         /\ out' = [op |-> "validate_integrity", all_networks |-> w.all_networks,
                    all_pools |-> w.all_pools, isfile |-> w.isfile,
                    url_ok |-> w.url_ok, exc |-> ""]
    /\ UNCHANGED <<pc, args, scan, exc, os_info, name, fc_host_support>>

Next == Construct \/ ToVmXml \/ ToVolumeList \/ ValidateIntegrity

Spec == Init /\ [][Next]_vars

(***************************************************************************)
(* Properties                                                              *)
(***************************************************************************)
Compiled == out.op = "to_vm_xml" /\ out.exc = ""

\* every element of a compiled descriptor
Elements(xml) ==
    Range(xml.qemu_stream_cmdline) \cup Range(xml.disks) \cup Range(xml.cdroms)
    \cup Range(xml.networks) \cup Range(xml.graphics) \cup Range(xml.input_output)

\* C1: every volume to_volume_list returns has format 'raw' and allocation
\* equal to its capacity when the storage type is 'logical', and format
\* 'qcow2' and allocation 0 for every other storage type; there is one volume
\* per disk, with the disk's size as capacity.
C1_VolumeFormat ==
    (out.op = "to_volume_list" /\ out.exc = "") =>
        /\ Len(out.ret) = Len(info["disks"])
        /\ \A i \in 1..Len(out.ret) :
             LET v == out.ret[i]
             IN  /\ v.capacity = info["disks"][i]["size"]
                 /\ v.xml.capacity = v.capacity
                 /\ v.xml.allocation = v.allocation
                 /\ v.xml.target.format = v.format
                 /\ IF out.storage_type = "logical"
                    THEN v.format = "raw" /\ v.allocation = v.capacity
                    ELSE v.format = "qcow2" /\ v.allocation = 0

C1_Witness ==
    /\ out.op = "to_volume_list" /\ out.exc = ""
    /\ out.storage_type = "logical"
    /\ Len(out.ret) >= 2
    /\ out.ret[2].allocation = 10
    /\ "base" \in DOMAIN out.ret[1]

\* C2: in a compiled descriptor whose disks come from the file-pool or the
\* iSCSI builder, the device names of the disks are pairwise distinct, and a
\* disk with no explicit index has the letter of its position.
C2_DistinctDevices ==
    (Compiled /\ out.storage_type # "scsi") =>
        LET ds == out.xml.disks
        IN  /\ \A i, j \in 1..Len(ds) : i # j => ds[i].dev # ds[j].dev
            /\ \A i \in 1..Len(ds) :
                 "index" \notin DOMAIN info["disks"][i] =>
                     ds[i].dev = _bus_to_dev[info["disk_bus"]] \o Lowercase[i]

\* C3: a compiled descriptor has one graphics element and, exactly when the
\* effective graphics type (the override over the template's graphics) is
\* 'spice', a spicevmc channel element; otherwise it has no channel element.
C3_SpiceChannel ==
    Compiled =>
        LET effective == IF "type" \in DOMAIN out.graphics THEN out.graphics["type"]
                         ELSE info["graphics"]["type"]
            es == Elements(out.xml)
        IN  /\ Cardinality({e \in es : e.tag = "graphics"}) = 1
            /\ \A e \in es : e.tag = "graphics" => e.type = effective
            /\ effective = "spice" =>
                   \E e \in es : e.tag = "channel" /\ e.type = "spicevmc"
            /\ effective # "spice" => \A e \in es : e.tag # "channel"

C3_Witness ==
    /\ Compiled
    /\ info["graphics"]["type"] = "vnc"
    /\ out.graphics = [type |-> "spice"]
    /\ \E e \in Elements(out.xml) : e.tag = "channel"

\* C4: for a cdrom that is a URL with scheme S and a protocol set P, a compiled
\* descriptor has, if S is not in P, the command-line fragment, the qemu
\* namespace and no cdrom disk element; if S is in P, a network disk element
\* with protocol S and the explicit port, or the scheme's registered port when
\* the URL has none, and no namespace.  With no cdrom or a local one the
\* namespace is not declared.
C4_CdromStreaming ==
    Compiled =>
        LET cd     == Get(info, "cdrom", EmptyStr)
            remote == Len(cd) >= 2 /\ cd[2] = "://"
            S      == cd[1]
            P      == out.libvirt_stream_protocols
            port   == IF Len(cd) >= 5 /\ cd[4] = ":" THEN ParseInt(cd[5])
                      ELSE getservbyname(S)[1]
            x      == out.xml
            cdromDisks == {e \in Elements(x) : e.tag = "disk" /\ e.device = "cdrom"}
        IN  /\ (remote /\ S \notin P) =>
                /\ Len(x.qemu_stream_cmdline) = 1
                /\ x.qemu_stream_cmdline[1].tag = "qemu:commandline"
                /\ x.qemu_namespace = QEMU_NAMESPACE
                /\ cdromDisks = {}
            /\ (remote /\ S \in P) =>
                /\ Cardinality(cdromDisks) = 1
                /\ \A e \in cdromDisks :
                     e.type = "network" /\ e.protocol = S /\ e.port = port
                /\ x.qemu_namespace = ""
                /\ x.qemu_stream_cmdline = <<>>
            /\ ~remote => x.qemu_namespace = "" /\ x.qemu_stream_cmdline = <<>>

C4_Witness ==
    /\ Compiled
    /\ Get(info, "cdrom", EmptyStr) = NfsIso
    /\ "nfs" \in out.libvirt_stream_protocols
    /\ out.xml.cdroms[1].port = 2049

C6_SizeBackfill ==
    (pc = "built" /\ "disks" \in DOMAIN args) =>
        \A i \in 1..Len(args["disks"]) :
            LET given == args["disks"][i]
                kept  == info["disks"][i]
            IN  /\ "size" \in DOMAIN given =>
                       "size" \in DOMAIN kept /\ kept["size"] = given["size"]
                /\ ("base" \in DOMAIN given /\ "size" \notin DOMAIN given) =>
                       /\ "size" \in DOMAIN kept
                       /\ kept["size"] = probe_img_info(given["base"]).virtual_size

\* C7: validate_integrity does not fail, and its findings have 'networks' with
\* exactly the configured networks missing from the inventory, 'storagepools'
\* with the pool name exactly when the pool is missing, 'cdrom' with the cdrom
\* exactly when it is configured and neither a file nor reachable; a category
\* with nothing to report is absent.
C7_Findings ==
    out.op = "validate_integrity" =>
        LET f       == info["invalid"]
            missing == {n \in Range(info["networks"]) : n \notin out.all_networks}
            uri     == info["storagepool"]
            pool    == uri[Len(uri)]
            cd      == Get(info, "cdrom", EmptyStr)
            badIso  == cd # EmptyStr /\ ~out.isfile /\ ~out.url_ok
        IN  /\ out.exc = ""
            /\ DOMAIN f \subseteq {"networks", "storagepools", "cdrom"}
            /\ "networks" \in DOMAIN f <=> missing # {}
            /\ "networks" \in DOMAIN f => f["networks"] = missing
            /\ "storagepools" \in DOMAIN f <=> pool \notin out.all_pools
            /\ "storagepools" \in DOMAIN f => f["storagepools"] = <<pool>>
            /\ "cdrom" \in DOMAIN f <=> badIso
            /\ "cdrom" \in DOMAIN f => f["cdrom"] = <<cd>>

C7_Witness ==
    /\ out.op = "validate_integrity"
    /\ DOMAIN info["invalid"] = {"networks", "cdrom"}
    /\ info["invalid"]["networks"] = {"default"}
    /\ Len(info["networks"]) = 2

\* C8 as stated: the (distro, version) of a constructed template is the
\* cdrom's probe when a cdrom is given and scanning is requested, otherwise the
\* probe of the first disk with a 'base', otherwise unknown.
C8_FirstBase ==
    pc = "built" =>
        LET cd    == Get(args, "cdrom", EmptyStr)
            disks == Get(args, "disks", <<>>)
            bases == {i \in 1..Len(disks) : "base" \in DOMAIN disks[i]}
        IN  os_info =
                IF cd # EmptyStr /\ scan THEN IsoProbe(cd).val
                ELSE IF bases # {}
                THEN probe_image(disks[CHOOSE i \in bases :
                                          \A j \in bases : i <= j]["base"])
                ELSE <<"unknown", "unknown">>

\* C8 amended: the (distro, version) of a constructed template is unknown when
\* scanning is not requested; with scanning it is the cdrom's probe when a
\* cdrom is given, and otherwise the probe of the last disk with a 'base'.
C8_LastBaseWhenScanning ==
    pc = "built" =>
        LET cd    == Get(args, "cdrom", EmptyStr)
            disks == Get(args, "disks", <<>>)
            bases == {i \in 1..Len(disks) : "base" \in DOMAIN disks[i]}
        IN  os_info =
                IF ~scan THEN <<"unknown", "unknown">>
                ELSE IF cd # EmptyStr THEN IsoProbe(cd).val
                ELSE probe_image(disks[CHOOSE i \in bases :
                                          \A j \in bases : j <= i]["base"])

C8_Witness ==
    /\ pc = "built" /\ scan
    /\ "cdrom" \notin DOMAIN args
    /\ "disks" \in DOMAIN args /\ Len(args["disks"]) = 2
    /\ args["disks"][1] = [base |-> "/img/a"]
    /\ args["disks"][2] = [base |-> "/img/b", size |-> 20]
    /\ os_info = <<"ubuntu", "14.04">>

\* C9: the peripheral builder does not fail, and a compiled descriptor has a
\* mouse, keyboard, tablet or sound element exactly for each of the keys
\* mouse_bus, kbd_bus, tablet_bus, sound_model present, each with the value of
\* its own key.
C9_Peripherals ==
    out.op = "to_vm_xml" =>
        /\ out.exc # "KeyError:kbd_bus"
        /\ out.exc = "" =>
             out.xml.input_output =
                (IF "mouse_bus" \in DOMAIN info
                 THEN <<[tag |-> "input", type |-> "mouse", bus |-> info["mouse_bus"]]>>
                 ELSE <<>>)
                \o (IF "kbd_bus" \in DOMAIN info
                    THEN <<[tag |-> "input", type |-> "kbd", bus |-> info["kbd_bus"]]>>
                    ELSE <<>>)
                \o (IF "tablet_bus" \in DOMAIN info
                    THEN <<[tag |-> "input", type |-> "tablet",
                            bus |-> info["tablet_bus"]]>>
                    ELSE <<>>)
                \o (IF "sound_model" \in DOMAIN info
                    THEN <<[tag |-> "sound", model |-> info["sound_model"]]>>
                    ELSE <<>>)

\* C10: in a compiled descriptor with the cdrom attached as a disk element, the
\* cdrom's target device name differs from that of every disk element.
C10_CdromDevDistinct ==
    (Compiled /\ out.xml.cdroms # <<>>) =>
        \A i \in 1..Len(out.xml.disks) :
            out.xml.disks[i].dev # out.xml.cdroms[1].dev

====
